---- MODULE Spec2Model ----
(***************************************************************************)
(* Model of MSC.py: the Maximum Similarity Counter.                        *)
(*                                                                         *)
(* Strings are sequences of code points, so that ord() of a character is   *)
(* the element itself and chr(0) is the element 0.  numpy's float64 values *)
(* are decimal floating point numbers m * 10^e with a six digit mantissa   *)
(* (100000 <= m <= 999999, or m = 0 for 0.0), results truncated, plus the  *)
(* special values nan and inf.                                             *)
(***************************************************************************)
EXTENDS Integers, Sequences, FiniteSets, TLC

VARIABLES
    pc,        \* position in the call being run
    arg1,      \* MSC.similarity: argument text1 of the current call
    arg2,      \* MSC.similarity: argument text2 of the current call
    text1,     \* MSC.similarity: local text1 (reassigned by clean, equalizeTexts)
    text2,     \* MSC.similarity: local text2
    idx,       \* number of zip() pairs the for loop has consumed
    int1,      \* code list of word1 after padding, last iteration
    int2,      \* code list of word2 after padding, last iteration
    zs,        \* the difference vectors z, one per iteration
    sim,       \* the list sim of per-word (or per-field) scores
    ret,       \* the returned value
    call,      \* 1: similarity(A, B); 2: the following call similarity(B, A)
    words,     \* the pairs (word1, word2) zip() produced, one per iteration
    prev,      \* what call 1 produced: [ret, zs, words]
    text,      \* MSC.clean: the argument
    outText,   \* MSC.clean: the returned text
    outText2,  \* MSC.clean applied to outText
    fields1,   \* MSCMultiple.similarity: argument fields1
    fields2    \* MSCMultiple.similarity: argument fields2

vars == <<pc, arg1, arg2, text1, text2, idx, int1, int2, zs, sim, ret, call,
          words, prev, text, outText, outText2, fields1, fields2>>

-----------------------------------------------------------------------------
(* Bounds of the model. *)

MaxLen == 4      \* raw texts given to clean alone have at most MaxLen characters
MaxWords == 3    \* raw texts given to similarity join at most MaxWords tokens
MaxFields == 2   \* field lists given to MSCMultiple have at most MaxFields fields

-----------------------------------------------------------------------------
(* float64 arithmetic as numpy performs it on the values of this program.  *)

NaN == [k |-> "nan", m |-> 0, e |-> 0]
Inf == [k |-> "inf", m |-> 0, e |-> 0]
FZero == [k |-> "num", m |-> 0, e |-> 0]
FOne == [k |-> "num", m |-> 100000, e |-> -5]

RECURSIVE Pow10(_)
Pow10(n) == IF n = 0 THEN 1 ELSE 10 * Pow10(n - 1)

\* m * 10^e brought back to a six digit mantissa; below the smallest float64
\* (4.94e-324) the value is 0.0.
RECURSIVE FNorm(_, _)
FNorm(m, e) ==
    IF m = 0 THEN FZero
    ELSE IF m >= 1000000 THEN FNorm(m \div 10, e + 1)
    ELSE IF e < -329 THEN FZero
    ELSE [k |-> "num", m |-> m, e |-> e]

\* x + y for x, y >= 0 (or nan, inf)
FAdd(x, y) ==
    IF x.k = "nan" \/ y.k = "nan" THEN NaN
    ELSE IF x.k = "inf" \/ y.k = "inf" THEN Inf
    ELSE IF x.m = 0 THEN y
    ELSE IF y.m = 0 THEN x
    ELSE LET hi == IF x.e >= y.e THEN x ELSE y
             lo == IF x.e >= y.e THEN y ELSE x
             sh == hi.e - lo.e
             lom == IF sh > 6 THEN 0 ELSE lo.m \div Pow10(sh)
         IN  FNorm(hi.m + lom, hi.e)

\* x / n for a float64 x >= 0 and an int n >= 0: numpy divides by zero without
\* raising (RuntimeWarning): 0.0 / 0 is nan and x / 0 is inf for x > 0.
FDiv(x, n) ==
    IF x.k = "nan" THEN NaN
    ELSE IF n = 0 THEN (IF x.k = "num" /\ x.m = 0 THEN NaN ELSE Inf)
    ELSE IF x.k = "inf" THEN Inf
    ELSE FNorm((x.m * 1000) \div n, x.e - 3)

RECURSIVE FSum(_)
FSum(X) == IF X = <<>> THEN FZero ELSE FAdd(FSum(SubSeq(X, 1, Len(X) - 1)), X[Len(X)])

\* Python's == on two floats: nan equals nothing, itself included.
FEq(x, y) == x.k # "nan" /\ y.k # "nan" /\ x = y

\* 0 < x, 0 <= x and x <= 1 on floats (all False on nan)
FPositive(x) == x.k = "inf" \/ (x.k = "num" /\ x.m > 0)
FNonNegative(x) == x.k = "inf" \/ x.k = "num"
FLeqOne(x) == x.k = "num" /\ (x.m = 0 \/ x.e < -5 \/ x = FOne)

\* np.mean of a list of floats
Mean(X) == FDiv(FSum(X), Len(X))

-----------------------------------------------------------------------------
(* MSC.kernel, MSC.S, MSC._ord *)

Abs(x) == IF x < 0 THEN -x ELSE x

\* exp(-0.5 * d^2) for d = 0 .. 38, six digits; from d = 39 on the float64
\* result is 0.0 (exp(-760.5) underflows).
KernelMant == <<100000, 606530, 135335, 111089, 335462, 372665, 152299, 228973,
                126641, 257675, 192874, 531109, 538018, 200500, 274878, 138634,
                257220, 175568, 440853, 407235, 138389, 173008, 795674, 134619,
                837894, 191855, 161608, 500796, 570904, 239425, 369388, 209653,
                437749, 336244, 950144, 987710, 377724, 531406, 275032>>
KernelExp == <<-5, -6, -6, -7, -9, -11, -13, -16, -19, -23, -27, -32, -37, -42,
               -48, -54, -61, -68, -76, -84, -92, -101, -111, -120, -131, -141,
               -152, -164, -176, -188, -201, -214, -228, -242, -257, -272, -287,
               -303, -319>>

\* kernel(x, s = 1) for one integer x
kernel(x) ==
    IF Abs(x) < Len(KernelMant)
    THEN [k |-> "num", m |-> KernelMant[Abs(x) + 1], e |-> KernelExp[Abs(x) + 1]]
    ELSE FZero

\* S with the division by len(X) left out
S_NoDivide(X) == FSum([j \in 1..Len(X) |-> kernel(X[j])])

\* S(X) = np.sum(kernel(X)) / len(X), kernel applied elementwise
S(X) == FDiv(FSum([j \in 1..Len(X) |-> kernel(X[j])]), Len(X))

\* _ord(text) = list(map(ord, text)): a string is already its code points
ord(txt) == [j \in 1..Len(txt) |-> txt[j]]

-----------------------------------------------------------------------------
(* str.split(" "), " ".join, and MSC.equalizeTexts *)

\* text.split(" "): always at least one token; "" gives [""]
RECURSIVE Split(_)
Split(txt) ==
    IF \A j \in 1..Len(txt) : txt[j] # 32 THEN <<txt>>
    ELSE LET p == CHOOSE j \in 1..Len(txt) :
                      txt[j] = 32 /\ \A h \in 1..(j - 1) : txt[h] # 32
         IN  <<SubSeq(txt, 1, p - 1)>> \o Split(SubSeq(txt, p + 1, Len(txt)))

\* " ".join(chr(0) for _ in range(n))
RECURSIVE SentinelBlock(_)
SentinelBlock(n) ==
    IF n <= 0 THEN <<>>
    ELSE IF n = 1 THEN <<0>>
    ELSE SentinelBlock(n - 1) \o <<32, 0>>

\* equalizeTexts appending the sentinel block to text2 whichever text is shorter
equalizeTexts_PadSecond(t1, t2) ==
    LET n1 == Len(Split(t1))
        n2 == Len(Split(t2))
    IN  <<t1, t2 \o SentinelBlock(IF n1 > n2 THEN n1 - n2 ELSE n2 - n1)>>

\* equalizeTexts with a space between the shorter text and the sentinel block
equalizeTexts_LeadingSpace(t1, t2) ==
    LET n1 == Len(Split(t1))
        n2 == Len(Split(t2))
    IN  IF n1 > n2
        THEN <<t1, t2 \o <<32>> \o SentinelBlock(n1 - n2)>>
        ELSE IF n2 > n1
        THEN <<t1 \o <<32>> \o SentinelBlock(n2 - n1), t2>>
        ELSE <<t1, t2>>

equalizeTexts(t1, t2) ==
    LET n1 == Len(Split(t1))
        n2 == Len(Split(t2))
    IN  IF n1 > n2
        THEN <<t1, t2 \o SentinelBlock(n1 - n2)>>
        ELSE <<t1 \o SentinelBlock(n2 - n1), t2>>

-----------------------------------------------------------------------------
(* MSC.clean *)

\* str.lower() on one character (ASCII and Latin-1 capitals)
lower(c) ==
    IF (65 <= c /\ c <= 90) \/ (192 <= c /\ c <= 222 /\ c # 215) THEN c + 32 ELSE c

\* text.replace(old, new) for single characters
replace(txt, old, new) == [j \in 1..Len(txt) |-> IF txt[j] = old THEN new ELSE txt[j]]

\* the characters str.strip() removes (str.isspace)
IsSpace(c) == c \in {9, 10, 11, 12, 13, 28, 29, 30, 31, 32, 133, 160}

\* text.strip()
strip(txt) ==
    IF \A j \in 1..Len(txt) : IsSpace(txt[j]) THEN <<>>
    ELSE LET a == CHOOSE j \in 1..Len(txt) :
                      ~IsSpace(txt[j]) /\ \A h \in 1..(j - 1) : IsSpace(txt[h])
             b == CHOOSE j \in 1..Len(txt) :
                      ~IsSpace(txt[j]) /\ \A h \in (j + 1)..Len(txt) : IsSpace(txt[h])
         IN  SubSeq(txt, a, b)

\* re.sub(' +', ' ', text): a space that follows a space is dropped
RECURSIVE collapse(_)
collapse(txt) ==
    IF Len(txt) <= 1 THEN txt
    ELSE LET front == collapse(SubSeq(txt, 1, Len(txt) - 1))
             c == txt[Len(txt)]
         IN  IF c = 32 /\ txt[Len(txt) - 1] = 32 THEN front ELSE Append(front, c)

\* the characters the final loop of clean keeps
Kept(c) == (97 <= c /\ c <= 122) \/ (48 <= c /\ c <= 57) \/ c = 32

clean(txt) ==
    LET lowered == [j \in 1..Len(txt) |-> lower(txt[j])]
        folded == replace(replace(lowered, 233, 101), 232, 101)
        unlined == replace(folded, 10, 32)
        collapsed == collapse(strip(unlined))
    IN  SelectSeq(collapsed, Kept)

-----------------------------------------------------------------------------
(* The body of the for loop of MSC.similarity, and the whole call. *)

Min(a, b) == IF a < b THEN a ELSE b
Zeros(n) == [j \in 1..n |-> 0]

\* lines 123-136: the two code lists, the shorter one right-padded with 0
Pad(word1, word2) ==
    LET i1 == ord(word1)
        i2 == ord(word2)
        n1 == Len(i1)
        n2 == Len(i2)
    IN  IF n1 > n2
        THEN <<i1, i2 \o Zeros(n1 - n2)>>
        ELSE <<i1 \o Zeros(n2 - n1), i2>>

\* z = int2 - int1
Diff(i1, i2) == [j \in 1..Len(i1) |-> i2[j] - i1[j]]

WordScore(word1, word2) ==
    LET p == Pad(word1, word2) IN S(Diff(p[1], p[2]))

\* number of pairs zip(text1.split(" "), text2.split(" ")) yields
ZipLen(t1, t2) == Min(Len(Split(t1)), Len(Split(t2)))

\* MSC.similarity(text1, text2) as one call
similarity(t1, t2) ==
    LET eq == equalizeTexts(clean(t1), clean(t2))
        w1 == Split(eq[1])
        w2 == Split(eq[2])
    IN  Mean([j \in 1..ZipLen(eq[1], eq[2]) |-> WordScore(w1[j], w2[j])])

-----------------------------------------------------------------------------
(* Inputs. *)

SeqsUpTo(A, n) == UNION {[1..h -> A] : h \in 0..n}

\* characters of the raw texts given to clean: a A E-acute 0 space newline tab dot
RawChars == {97, 65, 201, 48, 32, 10, 9, 46}

\* tokens of the raw texts given to similarity: "." "a" "0b"
Tokens == {<<46>>, <<97>>, <<48, 98>>}

RECURSIVE Join(_)
Join(ws) ==
    IF ws = <<>> THEN <<>>
    ELSE IF Len(ws) = 1 THEN ws[1]
    ELSE Join(SubSeq(ws, 1, Len(ws) - 1)) \o <<32>> \o ws[Len(ws)]

RawTexts == {Join(ws) : ws \in SeqsUpTo(Tokens, MaxWords)}

\* texts of the fields given to MSCMultiple: "" "a" "0" "a 0b"
FieldTexts == {<<>>, <<97>>, <<48>>, <<97, 32, 48, 98>>}

NoPrev == [ret |-> NaN, zs |-> <<>>, words |-> <<>>]

-----------------------------------------------------------------------------
(* MSC.similarity, statement by statement; then the caller calls it again   *)
(* with the two arguments exchanged.                                        *)

Init ==
    /\ pc = "start"
    /\ arg1 \in RawTexts
    /\ arg2 \in RawTexts
    /\ text1 = arg1
    /\ text2 = arg2
    /\ idx = 0
    /\ int1 = <<>>
    /\ int2 = <<>>
    /\ zs = <<>>
    /\ words = <<>>
    /\ sim = <<>>
    /\ ret = NaN
    /\ call = 1
    /\ prev = NoPrev
    /\ text = <<>>
    /\ outText = <<>>
    /\ outText2 = <<>>
    /\ fields1 = <<>>
    /\ fields2 = <<>>

\* lines 115-116
Clean ==
    /\ pc = "start"
    /\ text1' = clean(text1)
    /\ text2' = clean(text2)
    /\ pc' = "cleaned"
    /\ UNCHANGED <<arg1, arg2, idx, int1, int2, zs, words, sim, ret, call, prev,
                   text, outText, outText2, fields1, fields2>>

\* lines 117-119
Equalize ==
    /\ pc = "cleaned"
    /\ text1' = equalizeTexts(text1, text2)[1]
    /\ text2' = equalizeTexts(text1, text2)[2]
    /\ sim' = <<>>
    /\ pc' = "loop"
    /\ UNCHANGED <<arg1, arg2, idx, int1, int2, zs, words, ret, call, prev,
                   text, outText, outText2, fields1, fields2>>

\* lines 120-147: one iteration of the for loop
ScoreWord ==
    /\ pc = "loop"
    /\ idx < ZipLen(text1, text2)
    /\ LET word1 == Split(text1)[idx + 1]
           word2 == Split(text2)[idx + 1]
           p == Pad(word1, word2)
           z == Diff(p[1], p[2])
       IN  /\ int1' = p[1]
           /\ int2' = p[2]
           /\ zs' = Append(zs, z)
           /\ words' = Append(words, <<word1, word2>>)
           /\ sim' = Append(sim, S(z))
    /\ idx' = idx + 1
    /\ UNCHANGED <<pc, arg1, arg2, text1, text2, ret, call, prev,
                   text, outText, outText2, fields1, fields2>>

\* line 149
Return ==
    /\ pc = "loop"
    /\ idx = ZipLen(text1, text2)
    /\ ret' = Mean(sim)
    /\ pc' = "done"
    /\ UNCHANGED <<arg1, arg2, text1, text2, idx, int1, int2, zs, words, sim, call,
                   prev, text, outText, outText2, fields1, fields2>>

\* the caller: similarity(B, A) after similarity(A, B)
SwapCall ==
    /\ pc = "done"
    /\ call = 1
    /\ prev' = [ret |-> ret, zs |-> zs, words |-> words]
    /\ arg1' = arg2
    /\ arg2' = arg1
    /\ text1' = arg2
    /\ text2' = arg1
    /\ call' = 2
    /\ pc' = "start"
    /\ idx' = 0
    /\ int1' = <<>>
    /\ int2' = <<>>
    /\ zs' = <<>>
    /\ words' = <<>>
    /\ sim' = <<>>
    /\ ret' = NaN
    /\ UNCHANGED <<text, outText, outText2, fields1, fields2>>

Next == Clean \/ Equalize \/ ScoreWord \/ Return \/ SwapCall

Spec == Init /\ [][Next]_vars

-----------------------------------------------------------------------------
(* MSC.clean alone, applied once and then to its own result.               *)

InitClean ==
    /\ pc = "clean0"
    /\ text \in SeqsUpTo(RawChars, MaxLen)
    /\ outText = <<>>
    /\ outText2 = <<>>
    /\ arg1 = <<>>
    /\ arg2 = <<>>
    /\ text1 = <<>>
    /\ text2 = <<>>
    /\ idx = 0
    /\ int1 = <<>>
    /\ int2 = <<>>
    /\ zs = <<>>
    /\ words = <<>>
    /\ sim = <<>>
    /\ ret = NaN
    /\ call = 1
    /\ prev = NoPrev
    /\ fields1 = <<>>
    /\ fields2 = <<>>

CleanOnce ==
    /\ pc = "clean0"
    /\ outText' = clean(text)
    /\ pc' = "clean1"
    /\ UNCHANGED <<arg1, arg2, text1, text2, idx, int1, int2, zs, words, sim, ret,
                   call, prev, text, outText2, fields1, fields2>>

CleanAgain ==
    /\ pc = "clean1"
    /\ outText2' = clean(outText)
    /\ pc' = "clean2"
    /\ UNCHANGED <<arg1, arg2, text1, text2, idx, int1, int2, zs, words, sim, ret,
                   call, prev, text, outText, fields1, fields2>>

NextClean == CleanOnce \/ CleanAgain

SpecClean == InitClean /\ [][NextClean]_vars

-----------------------------------------------------------------------------
(* MSCMultiple.similarity *)

InitMulti ==
    /\ pc = "mloop"
    /\ fields1 \in SeqsUpTo(FieldTexts, MaxFields)
    /\ fields2 \in SeqsUpTo(FieldTexts, MaxFields)
    /\ sim = <<>>
    /\ idx = 0
    /\ ret = NaN
    /\ arg1 = <<>>
    /\ arg2 = <<>>
    /\ text1 = <<>>
    /\ text2 = <<>>
    /\ int1 = <<>>
    /\ int2 = <<>>
    /\ zs = <<>>
    /\ words = <<>>
    /\ call = 1
    /\ prev = NoPrev
    /\ text = <<>>
    /\ outText = <<>>
    /\ outText2 = <<>>

\* lines 220-222: one iteration over zip(fields1, fields2)
ScoreField ==
    /\ pc = "mloop"
    /\ idx < Min(Len(fields1), Len(fields2))
    /\ sim' = Append(sim, similarity(fields1[idx + 1], fields2[idx + 1]))
    /\ idx' = idx + 1
    /\ UNCHANGED <<pc, arg1, arg2, text1, text2, int1, int2, zs, words, ret, call,
                   prev, text, outText, outText2, fields1, fields2>>

\* line 224
ReturnMulti ==
    /\ pc = "mloop"
    /\ idx = Min(Len(fields1), Len(fields2))
    /\ ret' = Mean(sim)
    /\ pc' = "mdone"
    /\ UNCHANGED <<arg1, arg2, text1, text2, idx, int1, int2, zs, words, sim, call,
                   prev, text, outText, outText2, fields1, fields2>>

NextMulti == ScoreField \/ ReturnMulti

SpecMulti == InitMulti /\ [][NextMulti]_vars

-----------------------------------------------------------------------------
(* Properties of MSC.clean (SpecClean).                                    *)

\* only a-z, 0-9 and space; no leading, trailing or doubled space
Normalized(txt) ==
    /\ \A j \in 1..Len(txt) : Kept(txt[j])
    /\ txt # <<>> => (txt[1] # 32 /\ txt[Len(txt)] # 32)
    /\ \A j \in 1..(Len(txt) - 1) : ~(txt[j] = 32 /\ txt[j + 1] = 32)

\* C1: clean is idempotent: clean(clean(T)) = clean(T) for every text T.
C1_CleanIdempotent == pc = "clean2" => outText2 = outText

\* C8: the text clean returns holds only a-z, 0-9 and space, and has no
\* leading space, no trailing space and no two adjacent spaces.
C8_CleanNormalized == pc \in {"clean1", "clean2"} => Normalized(outText)

-----------------------------------------------------------------------------
(* Properties of MSC.similarity (Spec).                                    *)

Returned == pc = "done"

\* no difference vector handed to S was empty
NoEmptyVector == \A i \in 1..Len(zs) : zs[i] # <<>>

\* both arguments are non-empty texts that clean leaves as they are
PlainArgs ==
    /\ arg1 # <<>> /\ clean(arg1) = arg1 /\ Normalized(arg1)
    /\ arg2 # <<>> /\ clean(arg2) = arg2 /\ Normalized(arg2)

AllZero(z) == \A j \in 1..Len(z) : z[j] = 0

Neg(z) == [j \in 1..Len(z) |-> -z[j]]

\* C2: for every non-empty text T, similarity(T, T) == 1.0, every difference
\* vector being non-empty and all zero.
C2_Reflexive ==
    (Returned /\ call = 1 /\ arg1 = arg2 /\ arg1 # <<>>)
        => /\ FEq(ret, FOne)
           /\ \A i \in 1..Len(zs) : zs[i] # <<>> /\ AllZero(zs[i])

C4_BoundedOpen ==
    (Returned /\ NoEmptyVector) => (FPositive(ret) /\ FLeqOne(ret))

\* every code difference is beyond the reach of the float64 kernel
AllUnderflow == \A i \in 1..Len(zs) : \A j \in 1..Len(zs[i]) : Abs(zs[i][j]) >= 39

\* C4 amended: for all valid inputs the value returned is a number with
\* 0 <= similarity <= 1, and it is 0.0 when every code difference has
\* magnitude 39 or more.
C4_BoundedClosed ==
    (Returned /\ NoEmptyVector)
        => /\ FNonNegative(ret)
           /\ FLeqOne(ret)
           /\ AllUnderflow => ret = FZero

\* a valid call that returns exactly 0.0
C4_Witness == Returned /\ PlainArgs /\ NoEmptyVector /\ zs # <<>> /\ ret = FZero

\* C5: a call in which S is given an empty difference vector, such as
\* similarity("", ""), does not return a value (it raises InvalidInput).
C5_EmptyInputRaises == ~(Returned /\ ~NoEmptyVector)

\* C6: after clean and equalizeTexts the two texts split on a space into
\* word lists of the same length.
C6_EqualWordCounts ==
    pc \in {"loop", "done"} => Len(Split(text1)) = Len(Split(text2))

\* C9: in every iteration the two padded code lists have the same length,
\* and that length is at least 1.
C9_PaddedNonEmpty ==
    (pc \in {"loop", "done"} /\ idx > 0) => (Len(int1) = Len(int2) /\ Len(int1) >= 1)

\* the tokens of the shorter text once n sentinels are appended to it
Merged(short, n) ==
    LET ws == Split(short)
        h == Len(ws)
    IN  [j \in 1..(h + n - 1) |->
            IF j < h THEN ws[j] ELSE IF j = h THEN ws[h] \o <<0>> ELSE <<0>>]

\* the score of the first n - 1 words of the longer text against Merged
ScoreWithoutLast(long, short, n, longFirst) ==
    LET lw == Split(long)
        sw == Merged(short, n)
    IN  Mean([j \in 1..(Len(lw) - 1) |->
                 IF longFirst THEN WordScore(lw[j], sw[j]) ELSE WordScore(sw[j], lw[j])])

-----------------------------------------------------------------------------
(* Properties of MSCMultiple.similarity (SpecMulti).                       *)

\* C7: with field lists of different lengths the call does not return a
\* score (it fails with InvalidInput).
C7_MismatchFails == ~(pc = "mdone" /\ Len(fields1) # Len(fields2))

====
